---- MODULE Spec2Model ----
(***************************************************************************)
(* A model of neuromaton/automata/finite_automaton.py: the FiniteAutomaton *)
(* class (a networkx.MultiDiGraph with a `current` state), its constructor,*)
(* add_transition, __call__ and _default, and the Turnstile subclass that  *)
(* test() builds.                                                          *)
(*                                                                         *)
(* Values.  A state is a string.  A symbol is a record [type, name]: a     *)
(* string symbol, a non-string hashable symbol (the integer 1) or a plain  *)
(* function (slam).  A keyword bag (an edge's attributes, a call's         *)
(* payload) is a set of <<key, value>> pairs with integer values; a        *)
(* coin_value of 0.25 is written 25 (hundredths).                          *)
(***************************************************************************)
EXTENDS Integers, Sequences, FiniteSets, TLC

\* ---------------------------------------------------------------- bounds
MaxLen == 2      \* longest transition list handed to the constructor
MaxAdds == 1     \* add_transition calls on a live automaton

\* ------------------------------------------------------------ vocabulary
TRANSITION == "__TRANSITION_FUNCTION"
SELF == "<self>"

Str(n) == [type |-> "str", name |-> n]
Num(n) == [type |-> "int", name |-> n]
Fn(n) == [type |-> "function", name |-> n]

callable(symbol) == symbol.type = "function"

States == {"locked", "unlocked", "broken"}
Symbols == {Str("enter_coin"), Str("push"), Str("slam"), Fn("slam"),
            Str("name"), Num("1")}
FireSymbols == {s \in Symbols : ~callable(s)}

NoKw == {}
Kw(k, v) == {<<k, v>>}
Keys(kw) == {kv[1] : kv \in kw}
Get(kw, k, default) == IF k \in Keys(kw)
                       THEN (CHOOSE kv \in kw : kv[1] = k)[2]
                       ELSE default
\* a dict replaced by the later bag instead of updated
Replace(old, new) == new

\* dict.update: the later bag's keys win, the earlier bag's other keys stay
Update(old, new) == new \cup {kv \in old : kv[1] \notin Keys(new)}

AttrBags == {NoKw, Kw("weight", 1)}
Payloads == {NoKw, Kw("coin_value", 25), Kw("coin_value", 10),
             Kw("next_state", 0)}
QUARTER == 25   \* 0.25, in hundredths

\* ----------------------------------------------------- callables in scope
\* The named parameters of each function.  Each of them also takes a
\* ** parameter, so a keyword that names no parameter is accepted.
Params(name) ==
    CASE name = "_default" -> <<"self", "current_state", "next_state">>
      [] name = "enter_coin" -> <<"self", "first", "second">>
      [] name = "slam" -> <<"self", "current_state", "next_state">>
      [] name = "__call__" -> <<"self", "symbol">>

\* The methods a Turnstile gets from its class (and FiniteAutomaton).
ClassMethods == {"enter_coin", "_default"}
\* Attributes inherited from networkx.MultiDiGraph whose value is falsy:
\* Graph.name is '' when the constructor gets no name keyword.
FalsyAttrs == {"name"}

\* ------------------------------------------------------- calling a handler
\* The value stored under TRANSITION: functools.partial(f, *bound).  kind is
\* "function" (a plain function: nothing is passed for self), "method" or
\* "default" (a method bound to the automaton), "none" (key absent).
Handler(kind, name, bound) == [kind |-> kind, name |-> name, bound |-> bound]
NoHandler == Handler("none", "", <<>>)

Result(raised, cur, out) == [raised |-> raised, current |-> cur, output |-> out]

\* Python's argument binding: TRUE when the call raises TypeError, because
\* a keyword names a parameter already filled positionally, or a parameter
\* stays unfilled, or there are too many positional arguments.
BindError(params, pos, kw) ==
    \/ Len(pos) > Len(params)
    \/ \E i \in 1..Len(params) :
          \/ i <= Len(pos) /\ params[i] \in Keys(kw)
          \/ i > Len(pos) /\ params[i] \notin Keys(kw)

\* The positional arguments a stored handler is called with.
Positional(h) == IF h.kind \in {"method", "default"}
                 THEN <<SELF>> \o h.bound
                 ELSE h.bound

\* _default: print twice, then self.current = next_state
_default(pos, kw, cur) ==
    IF pos[1] = SELF
    THEN Result("none", pos[3], <<"moving", "attributes">>)
    ELSE Result("AttributeError", cur, <<"moving", "attributes">>)

\* enter_coin as it would be without the test of coin_value
EnterCoinAnyCoin(pos, kw, cur) ==
    IF pos[1] = SELF
    THEN Result("none", pos[3], <<"thanks">>)
    ELSE Result("AttributeError", cur, <<"thanks">>)

\* Turnstile.enter_coin: advance only for a quarter
enter_coin(pos, kw, cur) ==
    IF "coin_value" \in Keys(kw) /\ Get(kw, "coin_value", 0) = QUARTER
    THEN IF pos[1] = SELF
         THEN Result("none", pos[3], <<"thanks">>)
         ELSE Result("AttributeError", cur, <<"thanks">>)
    ELSE Result("none", cur, <<"only quarters">>)

\* slam as it would be if it assigned current_state instead of next_state
SlamStays(pos, kw, cur) ==
    IF pos[1] = SELF
    THEN Result("none", pos[2], <<"BANG">>)
    ELSE Result("AttributeError", cur, <<"BANG">>)

\* slam: print, then self.current = next_state
slam(pos, kw, cur) ==
    IF pos[1] = SELF
    THEN Result("none", pos[3], <<"BANG">>)
    ELSE Result("AttributeError", cur, <<"BANG">>)

\* handler(**kwargs) for a handler h stored on an edge
Invoke(h, kw, cur) ==
    LET pos == Positional(h)
    IN  IF BindError(Params(h.name), pos, kw)
        THEN Result("TypeError", cur, <<>>)
        ELSE CASE h.name = "_default" -> _default(pos, kw, cur)
               [] h.name = "enter_coin" -> enter_coin(pos, kw, cur)
               [] h.name = "slam" -> slam(pos, kw, cur)

\* ------------------------------------------------------------ the automaton
\* An automaton object g: current; adj, the successors of every node in the
\* order they became successors (a node is a key of adj); edge, the data
\* dict of every edge <<u, v, key>>, split into the caller's attributes and
\* the entry under TRANSITION; attached, the names set on the instance by
\* setattr.
Object(cur, adj_, edge_, attached_) ==
    [current |-> cur, adj |-> adj_, edge |-> edge_, attached |-> attached_]

Nodes(g) == DOMAIN g.adj
Edges(g) == DOMAIN g.edge
EdgeKeys(g, u, v) == {e[3] : e \in {x \in Edges(g) : x[1] = u /\ x[2] = v}}
Has(seq, x) == \E i \in 1..Len(seq) : seq[i] = x

\* super().__init__(); self.current = initial_state
NewObject(initial_state) ==
    Object(initial_state, [n \in {} |-> <<>>], [e \in {} |-> NoHandler], {})

\* add_edge as it would be if only the source became a node
AddEdgeSourceOnly(g, u, v, key, attr) ==
    LET nodes == Nodes(g) \cup {u}
        old(n) == IF n \in Nodes(g) THEN g.adj[n] ELSE <<>>
        e == <<u, v, key>>
        data == IF e \in Edges(g)
                THEN [attr |-> Update(g.edge[e].attr, attr),
                      handler |-> g.edge[e].handler]
                ELSE [attr |-> attr, handler |-> NoHandler]
    IN  [g EXCEPT
          !.adj = [n \in nodes |->
                     IF n = u /\ ~Has(old(n), v) THEN Append(old(n), v)
                     ELSE old(n)],
          !.edge = [x \in Edges(g) \cup {e} |->
                     IF x = e THEN data ELSE g.edge[x]]]

\* add_edge as it would be on a DiGraph: one edge per ordered pair
AddEdgeSinglePerPair(g, u, v, key, attr) ==
    LET nodes == Nodes(g) \cup {u, v}
        old(n) == IF n \in Nodes(g) THEN g.adj[n] ELSE <<>>
        e == <<u, v, key>>
        kept == {x \in Edges(g) : x[1] # u \/ x[2] # v}
        data == IF e \in Edges(g)
                THEN [attr |-> Update(g.edge[e].attr, attr),
                      handler |-> g.edge[e].handler]
                ELSE [attr |-> attr, handler |-> NoHandler]
    IN  [g EXCEPT
          !.adj = [n \in nodes |->
                     IF n = u /\ ~Has(old(n), v) THEN Append(old(n), v)
                     ELSE old(n)],
          !.edge = [x \in kept \cup {e} |->
                     IF x = e THEN data ELSE g.edge[x]]]

\* MultiDiGraph.add_edge(u, v, key=key, **attr): adds the missing nodes;
\* a new edge gets a fresh dict, an existing one is updated in place.
add_edge(g, u, v, key, attr) ==
    LET nodes == Nodes(g) \cup {u, v}
        old(n) == IF n \in Nodes(g) THEN g.adj[n] ELSE <<>>
        e == <<u, v, key>>
        data == IF e \in Edges(g)
                THEN [attr |-> Update(g.edge[e].attr, attr),
                      handler |-> g.edge[e].handler]
                ELSE [attr |-> attr, handler |-> NoHandler]
    IN  [g EXCEPT
          !.adj = [n \in nodes |->
                     IF n = u /\ ~Has(old(n), v) THEN Append(old(n), v)
                     ELSE old(n)],
          !.edge = [x \in Edges(g) \cup {e} |->
                     IF x = e THEN data ELSE g.edge[x]]]

\* SetHandler as it would be if handlers were kept per key, not per edge
SetHandlerByKey(g, u, v, key, handler) ==
    [g EXCEPT !.edge = [x \in Edges(g) |->
                          IF x[3] = key
                          THEN [g.edge[x] EXCEPT !.handler = handler]
                          ELSE g.edge[x]]]

\* self[u][v][key][TRANSITION] = handler
SetHandler(g, u, v, key, handler) ==
    [g EXCEPT !.edge[<<u, v, key>>].handler = handler]

\* getattr as it would be if only the instance dict were searched
GetattrInstanceOnly(g, name) ==
    IF name \in g.attached
    THEN [kind |-> "function", name |-> name]
    ELSE [kind |-> "None", name |-> name]

\* getattr(self, name, None) for a string name: the instance dict, then the
\* class, then None.
getattr(g, name) ==
    CASE name \in g.attached -> [kind |-> "function", name |-> name]
      [] name \notin g.attached /\ name \in ClassMethods ->
            [kind |-> "method", name |-> name]
      [] name \notin g.attached /\ name \in FalsyAttrs ->
            [kind |-> "falsy", name |-> name]
      [] OTHER -> [kind |-> "None", name |-> name]

Truthy(value) == value.kind \in {"function", "method"}

Outcome(g, raised) == [g |-> g, raised |-> raised]

\* FiniteAutomaton.add_transition(symbol, states, attrs); attrs is the bag
\* after `attrs or {}`.
add_transition(g, symbol, states, attrs) ==
    IF Len(states) # 2
    THEN Outcome(g, "ValueError")        \* first_state, next_state = states
    ELSE
    LET first_state == states[1]
        next_state == states[2]
    IN  IF callable(symbol)
        THEN LET symbol_name == symbol.name
                 g1 == [g EXCEPT !.attached = @ \cup {symbol_name}]
                 g2 == add_edge(g1, first_state, next_state,
                                Str(symbol_name), attrs)
             IN  Outcome(SetHandler(g2, first_state, next_state,
                                    Str(symbol_name),
                                    Handler("function", symbol_name,
                                        <<SELF, first_state, next_state>>)),
                         "none")
        ELSE LET g1 == add_edge(g, first_state, next_state, symbol, attrs)
             IN  IF symbol.type # "str"
                 THEN Outcome(g1, "TypeError")   \* getattr needs a string
                 ELSE LET transition == getattr(g1, symbol.name)
                      IN  IF Truthy(transition)
                          THEN Outcome(SetHandler(g1, first_state,
                                   next_state, symbol,
                                   Handler(transition.kind, transition.name,
                                       <<first_state, next_state>>)),
                                   "none")
                          ELSE Outcome(SetHandler(g1, first_state,
                                   next_state, symbol,
                                   Handler("default", "_default",
                                       <<first_state, next_state>>)),
                                   "none")

\* A transition descriptor of the constructor's list: a tuple of len
\* elements, of which the first three are symbol, states, attr_dict.
Descriptor(len, symbol, states, attrs) ==
    [len |-> len, symbol |-> symbol, states |-> states, attrs |-> attrs]

\* The constructor's loop as it would be if it took 3-tuples only
RECURSIVE LoadTriplesOnly(_, _, _)
LoadTriplesOnly(g, new_transitions, i) ==
    IF i > Len(new_transitions)
    THEN Outcome(g, "none")
    ELSE LET transition == new_transitions[i]
             r == IF transition.len = 3
                  THEN add_transition(g, transition.symbol,
                                      transition.states, transition.attrs)
                  ELSE Outcome(g, "none")
         IN  IF r.raised # "none" THEN r
             ELSE LoadTriplesOnly(r.g, new_transitions, i + 1)

\* The constructor's loop from its i-th descriptor on.
RECURSIVE Load(_, _, _)
Load(g, new_transitions, i) ==
    IF i > Len(new_transitions)
    THEN Outcome(g, "none")
    ELSE LET transition == new_transitions[i]
             r == IF transition.len = 2
                  THEN add_transition(g, transition.symbol,
                                      transition.states, NoKw)
                  ELSE IF transition.len = 3
                  THEN add_transition(g, transition.symbol,
                                      transition.states, transition.attrs)
                  ELSE Outcome(g, "none")
         IN  IF r.raised # "none" THEN r
             ELSE Load(r.g, new_transitions, i + 1)

\* FiniteAutomaton.__init__(new_transitions, initial_state)
__init__(new_transitions, initial_state) ==
    Load(NewObject(initial_state), new_transitions, 1)

\* One handler call made by __call__
Invocation(u, v, key, handler, r) ==
    [source |-> u, target |-> v, key |-> key, handler |-> handler,
     raised |-> r.raised, current |-> r.current]

Fired(g, raised, invoked, output) ==
    [g |-> g, raised |-> raised, invoked |-> invoked, output |-> output]

\* The loop of __call__ as it would be if the engine moved current to the
\* matched target itself after the handler returned.
RECURSIVE DispatchAdvancing(_, _, _, _, _, _, _, _)
DispatchAdvancing(g, from, targets, i, symbol, kw, invoked, output) ==
    IF i > Len(targets)
    THEN Fired(g, "none", invoked, output)
    ELSE LET target_state == targets[i]
         IN  IF symbol \notin EdgeKeys(g, from, target_state)
             THEN DispatchAdvancing(g, from, targets, i + 1, symbol, kw,
                                    invoked, output)
             ELSE LET h == g.edge[<<from, target_state, symbol>>].handler
                  IN  IF h.kind = "none"
                      THEN Fired(g, "KeyError", invoked, output)
                      ELSE LET r == Invoke(h, kw, g.current)
                               inv == Append(invoked,
                                   Invocation(from, target_state, symbol,
                                              h, r))
                               out == output \o r.output
                           IN  IF r.raised # "none"
                               THEN Fired([g EXCEPT !.current = r.current],
                                          r.raised, inv, out)
                               ELSE DispatchAdvancing(
                                        [g EXCEPT !.current = target_state],
                                        from, targets, i + 1, symbol, kw,
                                        inv, out)

\* The loop of __call__ over targets, the adjacency of the state that was
\* current when the call began, from its i-th entry on.
RECURSIVE Dispatch(_, _, _, _, _, _, _, _)
Dispatch(g, from, targets, i, symbol, kw, invoked, output) ==
    IF i > Len(targets)
    THEN Fired(g, "none", invoked, output)
    ELSE LET target_state == targets[i]
         IN  IF symbol \notin EdgeKeys(g, from, target_state)
             THEN Dispatch(g, from, targets, i + 1, symbol, kw,
                           invoked, output)
             ELSE LET h == g.edge[<<from, target_state, symbol>>].handler
                  IN  IF h.kind = "none"
                      THEN Fired(g, "KeyError", invoked, output)
                      ELSE LET r == Invoke(h, kw, g.current)
                               inv == Append(invoked,
                                   Invocation(from, target_state, symbol,
                                              h, r))
                               g1 == [g EXCEPT !.current = r.current]
                               out == output \o r.output
                           IN  IF r.raised # "none"
                               THEN Fired(g1, r.raised, inv, out)
                               ELSE Dispatch(g1, from, targets, i + 1,
                                             symbol, kw, inv, out)

NoConnection == "Failure to transition: no available connection!"

\* __call__ as it would be if an unmatched symbol raised IllegalTransition
\* (the stricter policy the error module was written for).
CallRaisingOnNoMatch(g, symbol, kw) ==
    IF BindError(Params("__call__"), <<SELF, symbol.name>>, kw)
    THEN Fired(g, "TypeError", <<>>, <<>>)
    ELSE IF g.current \notin Nodes(g)
    THEN Fired(g, "KeyError", <<>>, <<>>)
    ELSE LET targets == g.adj[g.current]
             r == Dispatch(g, g.current, targets, 1, symbol, kw, <<>>, <<>>)
         IN  IF targets = <<>>
             THEN Fired(g, "none", <<>>, <<NoConnection>>)
             ELSE IF r.invoked = <<>> /\ r.raised = "none"
             THEN Fired(g, "IllegalTransition", <<>>, <<>>)
             ELSE r

\* FiniteAutomaton.__call__(symbol, **kwargs)
__call__(g, symbol, kw) ==
    IF BindError(Params("__call__"), <<SELF, symbol.name>>, kw)
    THEN Fired(g, "TypeError", <<>>, <<>>)
    ELSE IF g.current \notin Nodes(g)
    THEN Fired(g, "KeyError", <<>>, <<>>)       \* self.adj[self.current]
    ELSE LET targets == g.adj[g.current]
         IN  IF targets # <<>>
             THEN Dispatch(g, g.current, targets, 1, symbol, kw, <<>>, <<>>)
             ELSE Fired(g, "none", <<>>, <<NoConnection>>)

\* ------------------------------------------------------------------ inputs
\* The (symbol, states) pairs transitions are drawn from: every symbol on
\* both edges out of locked, and the turnstile's way back.
Transitions ==
    (Symbols \X {<<"locked", "unlocked">>, <<"locked", "broken">>})
    \cup {<<Str("push"), <<"unlocked", "locked">>>>}

\* Transition descriptors: a 2-tuple for every transition, the 3-tuple of
\* test() with each attr_dict, and a tuple of another length.
Descriptors ==
    {Descriptor(2, t[1], t[2], NoKw) : t \in Transitions}
    \cup {Descriptor(3, Str("push"), <<"unlocked", "locked">>, a) :
             a \in AttrBags}
    \cup {Descriptor(1, Str("push"), <<>>, NoKw)}

RECURSIVE ListsOf(_, _)
ListsOf(S, n) ==
    IF n = 0 THEN {<<>>}
    ELSE LET shorter == ListsOf(S, n - 1)
         IN  shorter \cup {Append(l, x) : l \in {y \in shorter : Len(y) = n - 1},
                                          x \in S}

TransitionLists == ListsOf(Descriptors, MaxLen)

\* The (symbol, states) arguments of add_transition: the transitions, and
\* one whose states do not unpack into two.
AddArgs == Transitions \cup {<<Str("push"), <<"locked">>>>}
InitialStates == {"locked", "broken"}

\* ------------------------------------------------------------------- state
VARIABLES
    phase,      \* "new": not constructed; "live"; "failed": __init__ raised
    current,    \* self.current
    adj,        \* self.adj, see Object
    edge,       \* the edges' data dicts, see Object
    attached,   \* names set on the instance by setattr
    nadds,      \* add_transition calls made on the live automaton
    op,         \* the last call and its arguments
    raised,     \* the exception the last call raised, or "none"
    invoked,    \* the handler calls the last __call__ made, in order
    output      \* what the last __call__ printed

vars == <<phase, current, adj, edge, attached, nadds, op, raised, invoked,
          output>>

Self == Object(current, adj, edge, attached)

Becomes(g) ==
    /\ current' = g.current
    /\ adj' = g.adj
    /\ edge' = g.edge
    /\ attached' = g.attached

Op(name, new_transitions, initial_state, symbol, states, attrs, kw) ==
    [name |-> name, new_transitions |-> new_transitions,
     initial_state |-> initial_state, symbol |-> symbol, states |-> states,
     attrs |-> attrs, kw |-> kw]

NoOp == Op("none", <<>>, "", Str(""), <<>>, NoKw, NoKw)

Init ==
    /\ phase = "new"
    /\ current = ""
    /\ adj = [n \in {} |-> <<>>]
    /\ edge = [e \in {} |-> NoHandler]
    /\ attached = {}
    /\ nadds = 0
    /\ op = NoOp
    /\ raised = "none"
    /\ invoked = <<>>
    /\ output = <<>>

\* test(): Turnstile(new_transitions, initial_state)
Construct(new_transitions, initial_state) ==
    /\ phase = "new"
    /\ LET r == __init__(new_transitions, initial_state)
       IN  /\ Becomes(r.g)
           /\ raised' = r.raised
           /\ phase' = IF r.raised = "none" THEN "live" ELSE "failed"
    /\ op' = Op("__init__", new_transitions, initial_state, Str(""), <<>>,
                NoKw, NoKw)
    /\ UNCHANGED <<nadds, invoked, output>>

\* turnstile.add_transition(symbol, states, attrs)
AddTransition(symbol, states, attrs) ==
    /\ phase = "live"
    /\ nadds < MaxAdds
    /\ LET r == add_transition(Self, symbol, states, attrs)
       IN  /\ Becomes(r.g)
           /\ raised' = r.raised
    /\ nadds' = nadds + 1
    /\ op' = Op("add_transition", <<>>, "", symbol, states, attrs, NoKw)
    /\ UNCHANGED <<phase, invoked, output>>

\* turnstile(symbol, **kw)
Fire(symbol, kw) ==
    /\ phase = "live"
    /\ LET r == __call__(Self, symbol, kw)
       IN  /\ Becomes(r.g)
           /\ raised' = r.raised
           /\ invoked' = r.invoked
           /\ output' = r.output
    /\ op' = Op("__call__", <<>>, "", symbol, <<>>, NoKw, kw)
    /\ UNCHANGED <<phase, nadds>>

Next ==
    \/ \E l \in TransitionLists, q \in InitialStates : Construct(l, q)
    \/ \E t \in AddArgs, a \in AttrBags : AddTransition(t[1], t[2], a)
    \/ \E s \in FireSymbols, kw \in Payloads : Fire(s, kw)

Spec == Init /\ [][Next]_vars

\* ------------------------------------------------------------------ claims
Live == phase = "live"
Called == op.name = "__call__"
Added == op.name = "add_transition"
\* the edges leaving state u, and those of them keyed by symbol
OutEdges(g, u) == {e \in Edges(g) : e[1] = u}
Matching(g, u, symbol) == {e \in OutEdges(g, u) : e[3] = symbol}
\* every state named by a descriptor of a transition list
RECURSIVE DescriptorStates(_)
DescriptorStates(l) ==
    IF l = <<>> THEN {}
    ELSE {Head(l).states[i] : i \in 1..Len(Head(l).states)}
         \cup DescriptorStates(Tail(l))

\* C1: on every constructed automaton, after construction and after every
\* call, current is an element of the graph's node set.
C1_CurrentIsNode == Live => current \in Nodes(Self)

\* C2: a construction whose initial_state is neither source nor target of
\* any descriptor of the list fails with InvalidStartingState and leaves no
\* usable automaton.
C2_InvalidStartRejected ==
    (op.name = "__init__"
        /\ op.initial_state \notin DescriptorStates(op.new_transitions))
    => (raised = "InvalidStartingState" /\ phase = "failed")

C4_NoEdgesDiagnostic ==
    [][(Live /\ op'.name = "__call__" /\ OutEdges(Self, current) = {})
        => (/\ output' = <<NoConnection>>
            /\ invoked' = <<>>
            /\ raised' = "none"
            /\ current' = current)]_vars

\* C5: a call whose symbol keys an outgoing edge of current resolved to the
\* default handler runs that handler, which sets current to the edge's
\* target, whatever the payload.
C5_DefaultAdvances ==
    [][(Live /\ op'.name = "__call__")
        => \A e \in Matching(Self, current, op'.symbol) :
              edge[e].handler.kind = "default"
              => \E i \in 1..Len(invoked') :
                    /\ invoked'[i].target = e[2]
                    /\ invoked'[i].raised = "none"
                    /\ invoked'[i].current = e[2]]_vars

\* the handler add_transition left on the edge it was called for
KeyOf(symbol) == IF callable(symbol) THEN Str(symbol.name) ELSE symbol
AddedEdge(o) == <<o.states[1], o.states[2], KeyOf(o.symbol)>>

TestTransitions ==
    <<Descriptor(2, Str("enter_coin"), <<"locked", "unlocked">>, NoKw),
      Descriptor(3, Str("push"), <<"unlocked", "locked">>, NoKw)>>
Turnstile == __init__(TestTransitions, "locked").g
IsTurnstile ==
    /\ Live
    /\ adj = Turnstile.adj
    /\ edge = Turnstile.edge
    /\ attached = Turnstile.attached

\* C7: on the turnstile of test(), enter_coin from locked without a
\* coin_value of 0.25 leaves current locked, enter_coin with
\* coin_value=0.25 from locked gives unlocked, and push from unlocked gives
\* locked.
C7_TurnstileScenario ==
    [][(IsTurnstile /\ op'.name = "__call__")
        => /\ (current = "locked" /\ op'.symbol = Str("enter_coin")
                  /\ Get(op'.kw, "coin_value", 0) # QUARTER)
               => current' = "locked"
           /\ (current = "locked" /\ op'.symbol = Str("enter_coin")
                  /\ op'.kw = Kw("coin_value", QUARTER))
               => current' = "unlocked"
           /\ (current = "unlocked" /\ op'.symbol = Str("push")
                  /\ op'.kw = NoKw)
               => current' = "locked"]_vars

C7_Witness ==
    /\ IsTurnstile /\ Called
    /\ op.symbol = Str("push") /\ op.kw = NoKw
    /\ Len(invoked) = 1 /\ invoked[1].source = "unlocked"
    /\ current = "locked"

SlamOnBroken == Handler("function", "slam", <<SELF, "locked", "broken">>)
JustRegisteredSlam ==
    /\ Live /\ Added /\ raised = "none"
    /\ op.symbol = Fn("slam") /\ op.states = <<"locked", "broken">>
    /\ current = "locked"

\* C8 as claimed: right after slam is registered on (locked, broken) with
\* current locked, the call with 'slam' runs the registered callable with
\* (automaton, locked, broken) and leaves current broken.
C8_SlamDispatchable ==
    [][(JustRegisteredSlam /\ op'.name = "__call__"
            /\ op'.symbol = Str("slam") /\ op'.kw = NoKw)
        => (/\ \E i \in 1..Len(invoked') :
                  invoked'[i].handler = SlamOnBroken
            /\ raised' = "none"
            /\ current' = "broken")]_vars

\* C8 amended: the same, provided the registered edge is the only outgoing
\* edge of locked keyed 'slam'; the registered callable is then the one
\* handler the call runs.
C8_SlamDispatchableAlone ==
    [][(JustRegisteredSlam /\ op'.name = "__call__"
            /\ op'.symbol = Str("slam") /\ op'.kw = NoKw
            /\ Matching(Self, "locked", Str("slam"))
                   = {<<"locked", "broken", Str("slam")>>})
        => (/\ Len(invoked') = 1
            /\ invoked'[1].handler = SlamOnBroken
            /\ raised' = "none"
            /\ current' = "broken")]_vars

C8_Witness ==
    /\ Live /\ Called /\ nadds = 1
    /\ op.symbol = Str("slam") /\ op.kw = NoKw
    /\ Len(invoked) = 1 /\ invoked[1].handler = SlamOnBroken
    /\ raised = "none"
    /\ current = "broken"

\* C9: after any constructor and add_transition calls, those that raise
\* included, every edge of the automaton has a resolved handler.
C9_EveryEdgeHasHandler ==
    Live => \A e \in DOMAIN edge : edge[e].handler.kind # "none"

\* C10: add_transition(symbol, (source, target)) adds source and target to
\* the nodes and no other node, and the same call made again changes
\* neither the node set nor the set of edge keys.
C10_AddsExactlyItsNodes ==
    [][(Live /\ op'.name = "add_transition")
        => LET st == op'.states
               again == add_transition(Self', op'.symbol, st, op'.attrs).g
           IN  /\ Nodes(Self') = Nodes(Self) \cup
                      (IF Len(st) = 2 THEN {st[1], st[2]} ELSE {})
               /\ Nodes(again) = Nodes(Self')
               /\ Edges(again) = Edges(Self')]_vars

C10_Witness ==
    /\ Live /\ Added
    /\ op.symbol = Fn("slam") /\ op.states = <<"locked", "broken">>
    /\ Nodes(Self) = {"locked", "unlocked", "broken"}
    /\ Edges(Self) = DOMAIN Turnstile.edge
                       \cup {<<"locked", "broken", Str("slam")>>}

\* the edges between the states of e under another key
Siblings(g, e) == {x \in Edges(g) : x[1] = e[1] /\ x[2] = e[2] /\ x[3] # e[3]}
\* current after the handler calls of one __call__
AfterHandlers(before, calls) ==
    IF calls = <<>> THEN before ELSE calls[Len(calls)].current

\* C11: edges between the same ordered pair under different keys coexist:
\* adding one leaves the others and their handlers as they were, and a call
\* runs only handlers of edges keyed by its symbol, leaves every edge as it
\* was, and changes current only by what those handlers do.
C11_MultiEdgesCoexist ==
    [][/\ (Live /\ op'.name = "add_transition" /\ Len(op'.states) = 2)
           => \A x \in Siblings(Self, AddedEdge(op')) :
                 x \in DOMAIN edge' /\ edge'[x] = edge[x]
       /\ (Live /\ op'.name = "__call__")
           => /\ edge' = edge
              /\ \A i \in 1..Len(invoked') :
                    /\ invoked'[i].key = op'.symbol
                    /\ invoked'[i].source = current
                    /\ invoked'[i].handler =
                          edge[<<current, invoked'[i].target,
                                 op'.symbol>>].handler
              /\ current' = AfterHandlers(current, invoked')]_vars

C11_Witness ==
    /\ Live /\ Called /\ raised = "none"
    /\ Len(invoked) = 1
    /\ Siblings(Self, <<invoked[1].source, invoked[1].target, op.symbol>>)
           # {}
    /\ current = invoked[1].target

\* the targets of u, in adjacency order, that have an edge keyed by symbol
MatchingTargets(g, u, symbol) ==
    LET keyed(t) == symbol \in EdgeKeys(g, u, t)
    IN  SelectSeq(g.adj[u], keyed)

\* C12: one call runs exactly one handler for each target of the state that
\* was current when the call began that has an edge keyed by the symbol, in
\* adjacency order, without stopping at the first match; when all those
\* edges have the default handler current ends at the last such target.
C12_FiresAllMatching ==
    [][(Live /\ op'.name = "__call__" /\ current \in Nodes(Self))
        => LET targets == MatchingTargets(Self, current, op'.symbol)
           IN  /\ Len(invoked') = Len(targets)
               /\ \A i \in 1..Len(targets) :
                     /\ invoked'[i].target = targets[i]
                     /\ invoked'[i].source = current
               /\ (/\ targets # <<>>
                   /\ \A i \in 1..Len(targets) :
                         edge[<<current, targets[i], op'.symbol>>]
                             .handler.kind = "default")
                  => current' = targets[Len(targets)]]_vars

\* C13: __call__ itself never writes current: when no handler it runs
\* changes current, current is after the call what it was before, also
\* when an edge matched.
C13_OnlyHandlersMove ==
    [][(Live /\ op'.name = "__call__"
            /\ \A i \in 1..Len(invoked') : invoked'[i].current = current)
        => current' = current]_vars

C13_Witness ==
    /\ Live /\ Called /\ raised = "none"
    /\ Len(invoked) = 1
    /\ invoked[1].handler.kind = "method"
    /\ invoked[1].handler.name = "enter_coin"
    /\ invoked[1].current = invoked[1].source
    /\ current = invoked[1].source

\* the handler add_transition resolves for a callable or string symbol on
\* an automaton with the given names set on the instance
Resolved(symbol, s, t, names) ==
    IF callable(symbol)
    THEN Handler("function", symbol.name, <<SELF, s, t>>)
    ELSE IF symbol.name \in names
    THEN Handler("function", symbol.name, <<s, t>>)
    ELSE IF symbol.name \in ClassMethods
    THEN Handler("method", symbol.name, <<s, t>>)
    ELSE Handler("default", "_default", <<s, t>>)

\* the attribute bag a descriptor hands to add_transition
BagOf(d) == IF d.len = 3 THEN d.attrs ELSE NoKw
\* a list of two descriptors of length 2 or 3 for the same edge
Colliding(l) ==
    /\ Len(l) = 2
    /\ l[1].len \in {2, 3} /\ l[2].len \in {2, 3}
    /\ Len(l[1].states) = 2 /\ l[1].states = l[2].states
    /\ KeyOf(l[1].symbol) = KeyOf(l[2].symbol)
    /\ l[2].symbol.type \in {"function", "str"}

\* what C14 says of a call that adds e again with the bag `later`,
\* on an edge whose bag becomes `bag` and whose handler becomes h
Overwritten(e, bag, h, later, symbol, names) ==
    /\ bag = later
    /\ symbol.type \in {"function", "str"}
       => h = Resolved(symbol, e[1], e[2], names)

\* the same with the earlier bag updated by the later one
Merged(e, bag, h, earlier, later, symbol, names) ==
    /\ bag = later \cup {kv \in earlier : kv[1] \notin Keys(later)}
    /\ symbol.type \in {"function", "str"}
       => h = Resolved(symbol, e[1], e[2], names)

C15_ResolvedOnce ==
    [][(Live /\ op'.name = "add_transition")
        => \A x \in DOMAIN edge :
              (Len(op'.states) = 2 => x # AddedEdge(op'))
              => /\ x \in DOMAIN edge'
                 /\ edge'[x].handler = edge[x].handler]_vars

C15_Witness ==
    /\ Live /\ Added /\ raised = "none"
    /\ op.symbol = Fn("slam")
    /\ \E x \in DOMAIN edge :
          /\ x # AddedEdge(op)
          /\ x[3] = Str("slam")
          /\ edge[x].handler.kind = "default"

\* C16: a handler found under the name of a string symbol, a method of the
\* class or a function set on the instance by an earlier add_transition,
\* is called with its edge's source as source argument and its edge's
\* target as target argument.
C16_NamedHandlerGetsItsEdge ==
    [][(Live /\ op'.name = "__call__" /\ op'.kw = NoKw)
        => \A i \in 1..Len(invoked') :
              LET h == invoked'[i].handler
                  pos == Positional(h)
              IN  (h.kind \in {"method", "function"} /\ Len(h.bound) = 2)
                  => /\ invoked'[i].raised = "none"
                     /\ Len(pos) >= 3
                     /\ pos[2] = invoked'[i].source
                     /\ pos[3] = invoked'[i].target]_vars

AllDefault(g) == \A e \in Edges(g) : g.edge[e].handler.kind = "default"

\* C17: with the initial state a node of the constructed graph and every
\* edge resolved to the default handler, calls of the automaton and of
\* add_transition keep current a node and never shrink the node set or the
\* edge set, and a call of the automaton changes neither set.
C17_DefaultAutomatonStaysInGraph ==
    [][/\ (op'.name = "__init__" /\ phase' = "live"
              /\ op'.initial_state \in Nodes(Self') /\ AllDefault(Self'))
           => current' \in Nodes(Self')
       /\ (Live /\ current \in Nodes(Self)
              /\ AllDefault(Self) /\ AllDefault(Self'))
           => /\ current' \in Nodes(Self')
              /\ Nodes(Self) \subseteq Nodes(Self')
              /\ Edges(Self) \subseteq Edges(Self')
              /\ op'.name = "__call__"
                 => (Nodes(Self') = Nodes(Self)
                        /\ Edges(Self') = Edges(Self))]_vars

C17_Witness ==
    /\ Live /\ Called /\ nadds = 1 /\ raised = "none"
    /\ AllDefault(Self)
    /\ invoked # <<>>
    /\ current = invoked[Len(invoked)].target
    /\ current # invoked[1].source
    /\ current \in Nodes(Self)

\* Dynamic registration: an automaton constructed with an empty list and
\* initial state q, then one add_transition call per descriptor of l of
\* length 2 or 3, in list order, up to the first call that raises.
RECURSIVE Registered(_, _)
Registered(l, q) ==
    IF l = <<>>
    THEN __init__(<<>>, q)
    ELSE LET before == Registered(SubSeq(l, 1, Len(l) - 1), q)
             d == l[Len(l)]
         IN  IF before.raised # "none" \/ d.len \notin {2, 3}
             THEN before
             ELSE add_transition(before.g, d.symbol, d.states, BagOf(d))

\* C18: constructing with a list and an initial state gives the nodes,
\* edges, attribute bags, handlers and current that constructing with an
\* empty list and registering the list's descriptors of length 2 or 3 one
\* by one gives; a descriptor of another length adds nothing and raises
\* nothing.
C18_BulkIsDynamic ==
    [][op'.name = "__init__"
        => LET r == Registered(op'.new_transitions, op'.initial_state)
           IN  /\ Self' = r.g
               /\ raised' = r.raised
               /\ (\A i \in 1..Len(op'.new_transitions) :
                      op'.new_transitions[i].len \notin {2, 3})
                  => (raised' = "none" /\ Edges(Self') = {}
                         /\ Nodes(Self') = {})]_vars

C18_Witness ==
    /\ Live /\ op.name = "__init__"
    /\ Len(op.new_transitions) = 2
    /\ op.new_transitions[1].len = 1
    /\ op.new_transitions[2].len = 3
    /\ op.new_transitions[2].attrs = Kw("weight", 1)
    /\ \E e \in DOMAIN edge : edge[e].attr = Kw("weight", 1)

====
